---- MODULE Spec2Model ----
(***************************************************************************)
(* PolyDAQ 2 SD-card data-logging pipeline.                                *)
(*                                                                         *)
(* The model covers the card task (task_sd_card::run), the SD card driver  *)
(* (sd_card), the configuration file reader (logger_config), the producer  *)
(* task (task_sd_daq) and the text queue between producer and card task.   *)
(* Characters are one-character strings; a file is a sequence of them.     *)
(* Floating point numbers are carried as integers counting tenths.         *)
(***************************************************************************)
EXTENDS Integers, Sequences, FiniteSets, TLC

(***************************************************************************)
(* Bounds of the model.                                                    *)
(***************************************************************************)
\* number of card insertions explored
MaxInserts == 2
\* number of rows the producer emits in total
MaxRows == 1
\* capacity of the SD text queue (1000 in main.cpp), scaled down
QueueCap == 12
\* capacity of the driver buffer (SD_SECTORS_TO_WRITE * _MAX_SS), scaled down
BufCap == 5
\* number of candidate data file names (1000 in open_new_data_file), scaled down
MaxNames == 2
\* forced-flush period SD_TICKS_PER_SYNC (1000 ticks), scaled down
SyncTicks == 2

(***************************************************************************)
(* Program constants.                                                      *)
(***************************************************************************)
MAX_COL_LABEL_LEN == 24
configTICK_RATE_HZ == 3360
MAX_MS_PER_READING == 60000
MIN_MS_PER_READING == 1
FAIL_NUMBER == 65535

(***************************************************************************)
(* Characters.                                                             *)
(***************************************************************************)
NUL == "NUL"
Digits == <<"0", "1", "2", "3", "4", "5", "6", "7", "8", "9">>
IsDigit(c) == \E i \in 1..10 : Digits[i] = c
DigitVal(c) == (CHOOSE i \in 1..10 : Digits[i] = c) - 1

(***************************************************************************)
(* FatFs result codes used by the driver.                                  *)
(***************************************************************************)
FR_OK == "FR_OK"
FR_DISK_ERR == "FR_DISK_ERR"
FR_NO_FILE == "FR_NO_FILE"
FR_NOT_READY == "FR_NOT_READY"

(***************************************************************************)
(* The element of a one-element set.  { e : x \in {v} } names the value v  *)
(* of a call once, so that e does not compute the call again where it uses  *)
(* x.                                                                       *)
(***************************************************************************)
Only(S) == CHOOSE x \in S : TRUE

(***************************************************************************)
(* Reading characters from the open configuration file.  A stream is       *)
(* [f: the file's characters, pos: characters consumed, dfr: the driver's  *)
(* dir_file_result, failAt: the index of the character whose f_read fails  *)
(* (0: none), mounted].                                                    *)
(***************************************************************************)
f_eof(s) == s.pos >= Len(s.f)

\* sd_card::eof
eof(s) == IF (~s.mounted) \/ s.dfr # FR_OK THEN TRUE ELSE f_eof(s)

\* sd_card::getchar: <<character, stream after>>
getchar(s) ==
    IF (~s.mounted) \/ s.dfr # FR_OK \/ f_eof(s) THEN <<NUL, s>>
    ELSE IF s.failAt = s.pos + 1 THEN <<NUL, [s EXCEPT !.dfr = FR_DISK_ERR]>>
    ELSE <<s.f[s.pos + 1], [s EXCEPT !.pos = s.pos + 1]>>

\* sd_card::peek: <<character, stream after>>; the f_lseek back succeeds
peek(s) ==
    IF (~s.mounted) \/ s.dfr # FR_OK THEN <<NUL, s>>
    ELSE IF f_eof(s) THEN <<NUL, s>>
    ELSE IF s.failAt = s.pos + 1 THEN <<NUL, [s EXCEPT !.dfr = FR_DISK_ERR]>>
    ELSE <<s.f[s.pos + 1], s>>

(***************************************************************************)
(* emstream::operator >> (float&).  The result is                          *)
(* [hung, val (tenths), s].  The first loop reads characters until it      *)
(* finds a digit; getchar returning 0 at the end of the file or after an   *)
(* error never ends it.  A number keeps its first digit after the point;   *)
(* the backspace characters the operator honours are not in the files.     *)
(***************************************************************************)
RECURSIVE FloatSkip(_, _)
FloatSkip(s, negative) ==
    Only({ IF IsDigit(g[1])
           THEN [hung |-> FALSE, ch |-> g[1], neg |-> neg, s |-> g[2]]
           ELSE IF g[1] = NUL
           THEN [hung |-> TRUE, ch |-> NUL, neg |-> neg, s |-> g[2]]
           ELSE FloatSkip(g[2], neg)
         : g \in {getchar(s)}, neg \in {negative \/ getchar(s)[1] = "-"} })

RECURSIVE FloatInt(_, _)
FloatInt(s, temp) ==
    Only({ IF IsDigit(p[1]) THEN FloatInt(getchar(p[2])[2], t * 10 + DigitVal(p[1]))
           ELSE [temp |-> t, ch |-> p[1], s |-> p[2]]
         : p \in {peek(s)}, t \in {temp} })

\* the fractional digits; order is the weight of the next digit in tenths
RECURSIVE FloatFrac(_, _, _)
FloatFrac(s, tenths, order) ==
    Only({ IF IsDigit(p[1])
           THEN FloatFrac(getchar(p[2])[2], t + DigitVal(p[1]) * order, 0)
           ELSE [tenths |-> t, s |-> p[2]]
         : p \in {peek(s)}, t \in {tenths} })

\* the digits after the ones FloatInt has read: [tenths, s]
FloatRest(i) ==
    IF i.ch = "." THEN FloatFrac(getchar(i.s)[2], i.temp * 10, 1)
    ELSE [tenths |-> i.temp * 10, s |-> i.s]

ReadFloat(s) ==
    Only({ IF k.hung THEN [hung |-> TRUE, val |-> 0, s |-> k.s]
           ELSE Only({ [hung |-> FALSE,
                        val |-> IF k.neg THEN 0 - fr.tenths ELSE fr.tenths,
                        s |-> fr.s]
                     : fr \in {FloatRest(FloatInt(k.s, DigitVal(k.ch)))} })
         : k \in {FloatSkip(s, FALSE)} })

(***************************************************************************)
(* emstream::cin_uint_convert, used by operator >> (uint16_t&): skip to    *)
(* the first digit, then read the digits.                                  *)
(***************************************************************************)
ReadUint(s) ==
    Only({ IF k.hung THEN [hung |-> TRUE, val |-> 0, s |-> k.s]
           ELSE Only({ [hung |-> FALSE, val |-> i.temp % 65536, s |-> i.s]
                     : i \in {FloatInt(k.s, DigitVal(k.ch))} })
         : k \in {FloatSkip(s, FALSE)} })

(***************************************************************************)
(* The logger_config object:                                               *)
(* [config_valid, cols, cur, ticks_per_reading, ms_per_reading].  cols is  *)
(* the linked list from p_first_config_data, cur the position in it of     *)
(* p_current_config_data (0: NULL).                                        *)
(***************************************************************************)
\* logger_col_cfg::logger_col_cfg
NewCol == [command |-> "0", slope |-> 10, offset |-> 0, label |-> <<>>]

\* logger_config::clear
clear(cfg) ==
    [cfg EXCEPT !.config_valid = FALSE, !.ticks_per_reading = 100,
                !.cols = <<>>, !.cur = 0]

\* logger_config::get_first_channel: the object after the call
get_first_channel(cfg) == [cfg EXCEPT !.cur = IF cfg.cols = <<>> THEN 0 ELSE 1]

\* logger_config::get_next_channel: the object after the call
get_next_channel(cfg) ==
    IF cfg.cur # 0
    THEN [cfg EXCEPT !.cur = IF cfg.cur < Len(cfg.cols) THEN cfg.cur + 1 ELSE 0]
    ELSE cfg

\* skip colons, spaces and tabs before the channel command
RECURSIVE SkipSeparators(_)
SkipSeparators(s) ==
    Only({ IF p[1] \in {" ", "\t", ":"} THEN SkipSeparators(getchar(p[2])[2])
           ELSE p[2]
         : p \in {peek(s)} })

\* look for the quotation mark that begins the label
RECURSIVE FindQuote(_)
FindQuote(s) ==
    Only({ IF g[1] \in {"\"", "'", NUL} THEN g[2] ELSE FindQuote(g[2])
         : g \in {getchar(s)} })

\* One pass of the loop of read_channel_config that reads the label.  st is
\* [done, label, s]: done tells that the loop has been left, label is what
\* the buffer holds, s the stream.  The loop ends when the buffer holds
\* limit characters or a character that ends the label has been read.
LabelStep(st, limit) ==
    IF st.done THEN st
    ELSE IF Len(st.label) >= limit THEN [st EXCEPT !.done = TRUE]
    ELSE Only({ IF g[1] \in {"\r", "\n", "\"", "'", NUL}
                THEN [st EXCEPT !.done = TRUE, !.s = g[2]]
                ELSE [st EXCEPT !.label = Append(st.label, g[1]), !.s = g[2]]
              : g \in {getchar(st.s)} })

\* n passes of that loop, or as many as it makes
RECURSIVE LabelRun(_, _, _)
LabelRun(st, n, limit) ==
    IF st.done THEN st
    ELSE IF n <= 1 THEN LabelStep(st, limit)
    ELSE Only({ LabelRun(h[1], h[2], limit)
              : h \in {<<LabelRun(st, n \div 2, limit), n - (n \div 2)>>} })

\* the label read up to its end, however long it is: [done, label, s]
ReadLabelNoLimit(s, buf) ==
    Only({ LabelRun([done |-> FALSE, label |-> buf, s |-> v],
                    Len(v.f) + 1, Len(v.f) + 1)
         : v \in {s} })

\* read up to MAX_COL_LABEL_LEN characters of the label: [done, label, s]
ReadLabel(s, buf) ==
    Only({ LabelRun([done |-> FALSE, label |-> buf, s |-> v],
                    MAX_COL_LABEL_LEN + 1, MAX_COL_LABEL_LEN)
         : v \in {s} })

\* a new column linked in front of the list instead of behind it
LinkedInFront(cfg, col) == <<col>> \o cfg.cols

\* the list after the new column has been linked behind the current one
Linked(cfg, col) ==
    IF cfg.cols = <<>> THEN <<col>>
    ELSE Append(SubSeq(cfg.cols, 1, cfg.cur), col)

\* the object after the new column has become the current one
LinkCol(cfg, col) ==
    [cfg EXCEPT !.cols = Linked(cfg, col), !.cur = Len(Linked(cfg, col))]

\* the rest of read_channel_config once the command and the slope are read
ChannelRest(cfg, cmd, sl) ==
    Only({ IF of.hung THEN [hung |-> TRUE, cfg |-> cfg, s |-> of.s]
           ELSE Only({ [hung |-> FALSE,
                        cfg |-> LinkCol(cfg, [NewCol EXCEPT !.command = cmd[1],
                                                            !.slope = sl.val,
                                                            !.offset = of.val,
                                                            !.label = lb.label]),
                        s |-> lb.s]
                     : lb \in {ReadLabel(FindQuote(of.s), <<>>)} })
         : of \in {ReadFloat(sl.s)} })

\* logger_config::read_channel_config: [hung, cfg, s]
read_channel_config(cfg, s) ==
    Only({ Only({ IF sl.hung THEN [hung |-> TRUE, cfg |-> cfg, s |-> sl.s]
                  ELSE ChannelRest(cfg, cmd, sl)
                : sl \in {ReadFloat(cmd[2])} })
         : cmd \in {getchar(SkipSeparators(s))} })

\* the conversion of the period to ticks, kept in 16 bits
TicksOfMs(ms) == ((ms * configTICK_RATE_HZ) \div 1000) % 65536

\* One pass of the loop of logger_config::read_line.  st is
\* [done, hung, cfg, s, rl_state]: done tells that the loop has been left.
LineStep(st) ==
    IF st.done THEN st
    ELSE IF eof(st.s) THEN [st EXCEPT !.done = TRUE]
    ELSE Only({
           IF ch_in = "\n" THEN [st EXCEPT !.done = TRUE, !.s = g[2]]
           ELSE IF ch_in = "\r" THEN [st EXCEPT !.s = g[2]]
           ELSE IF st.rl_state = 0
                THEN [st EXCEPT !.s = g[2],
                                !.rl_state = IF ch_in = "T" THEN 1
                                             ELSE IF ch_in = "C" THEN 2
                                             ELSE IF ch_in \in {" ", "\t"} THEN 0
                                             ELSE 9]
           ELSE IF st.rl_state = 1
                THEN Only({ IF n.hung
                            THEN [st EXCEPT !.done = TRUE, !.hung = TRUE, !.s = n.s]
                            ELSE [st EXCEPT !.cfg.ms_per_reading = n.val,
                                            !.cfg.ticks_per_reading = TicksOfMs(n.val),
                                            !.s = n.s, !.rl_state = 9]
                          : n \in {ReadUint(g[2])} })
           ELSE IF st.rl_state = 2
                THEN Only({ IF r.hung
                            THEN [st EXCEPT !.done = TRUE, !.hung = TRUE,
                                            !.cfg = r.cfg, !.s = r.s]
                            ELSE [st EXCEPT !.cfg = r.cfg, !.s = r.s, !.rl_state = 9]
                          : r \in {read_channel_config(st.cfg, g[2])} })
           ELSE [st EXCEPT !.s = g[2]]
         : g \in {getchar(st.s)}, ch_in \in {getchar(st.s)[1]} })

\* n passes of that loop, or as many as it makes
RECURSIVE LineRun(_, _)
LineRun(st, n) ==
    IF st.done THEN st
    ELSE IF n <= 1 THEN LineStep(st)
    ELSE Only({ LineRun(h[1], h[2])
              : h \in {<<LineRun(st, n \div 2), n - (n \div 2)>>} })

\* the loop of logger_config::read_line: [done, hung, cfg, s, rl_state].  Every pass but the
\* last takes a character, so the loop makes no more passes than the file
\* has characters, and two more.
LineLoop(cfg, s, rl_state) ==
    Only({ LineRun([done |-> FALSE, hung |-> FALSE, cfg |-> cfg,
                    s |-> v, rl_state |-> rl_state],
                   Len(v.f) + 2)
         : v \in {s} })

\* logger_config::read_line: [hung, cfg, s, more]
read_line(cfg, s) ==
    Only({ [hung |-> r.hung, cfg |-> r.cfg, s |-> r.s, more |-> ~eof(r.s)]
         : r \in {LineLoop(cfg, s, 0)} })

\* the loop of logger_config::read that calls read_line for each line
RECURSIVE ReadLines(_, _)
ReadLines(cfg, s) ==
    Only({ IF r.hung \/ ~r.more THEN r ELSE ReadLines(r.cfg, r.s)
         : r \in {read_line(cfg, s)} })

NoFile == <<"NOFILE">>

\* sd_card::open_file_readonly: the result code
open_file_readonly(isMounted, f) ==
    IF ~isMounted THEN FR_NOT_READY
    ELSE IF f = NoFile THEN FR_NO_FILE ELSE FR_OK

\* sd_card::close_file: dir_file_result after the call
close_file(isMounted, dfr) ==
    IF (~isMounted) \/ dfr # FR_OK THEN dfr ELSE FR_OK

\* what the_file refers to after close_file
FileAfterClose(isMounted, dfr) ==
    IF (~isMounted) \/ dfr # FR_OK THEN "config" ELSE "none"

\* logger_config::read: [hung, opened, cfg, dfr, file]
read(cfg, isMounted, dfr, f, failAt) ==
    LET res == open_file_readonly(isMounted, f)
    IN  IF res # FR_OK
        THEN [hung |-> FALSE, opened |-> FALSE, cfg |-> cfg,
              dfr |-> IF isMounted THEN res ELSE dfr, file |-> "none"]
        ELSE Only({ IF r.hung
                    THEN [hung |-> TRUE, opened |-> TRUE, cfg |-> r.cfg,
                          dfr |-> r.s.dfr, file |-> "config"]
                    ELSE [hung |-> FALSE, opened |-> TRUE,
                          cfg |-> [r.cfg EXCEPT !.config_valid = TRUE],
                          dfr |-> close_file(isMounted, r.s.dfr),
                          file |-> FileAfterClose(isMounted, r.s.dfr)]
                  : r \in {ReadLines(clear(cfg),
                                     [f |-> f, pos |-> 0, dfr |-> FR_OK,
                                      failAt |-> failAt, mounted |-> isMounted])} })

(***************************************************************************)
(* Configuration files on the card.                                        *)
(***************************************************************************)
\* T:5 / C:0 2.5 1 "A" / C:1 1 0.0 "B"
FileTwoCols ==
    <<"T", ":", "5", "\n",
      "C", ":", "0", " ", "2", ".", "5", " ", "1", " ", "\"", "A", "\"", "\n",
      "C", ":", "1", " ", "1", " ", "0", ".", "0", " ", "\"", "B", "\"", "\n">>
\* a comment line only, no period line
FileComment == <<"#", " ", "x", "\n">>
\* a column line that ends before its numbers
FileNoDigit == <<"C", ":", "0", "\n">>

\* C:0 1 0 "A / C:1 2 0 "B": the first label has no closing quote
FileOpenLabel ==
    <<"C", ":", "0", " ", "1", " ", "0", " ", "\"", "A", "\n",
      "C", ":", "1", " ", "2", " ", "0", " ", "\"", "B", "\"", "\n">>

ConfigFiles == {FileTwoCols, FileComment, FileNoDigit, FileOpenLabel}

\* the object built by the constructor logger_config::logger_config
NewConfig(ms) ==
    [config_valid |-> FALSE, cols |-> <<>>, cur |-> 0,
     ticks_per_reading |-> 100, ms_per_reading |-> ms]

(***************************************************************************)
(* Text written to the data file and to the SD text queue.  A byte is      *)
(* [k, c, s]: k tells the preamble ("P"), the header ("H") and the rows    *)
(* ("R") apart, c is the text, s the card insertion during which the byte  *)
(* was produced.                                                           *)
(***************************************************************************)
RawValues == {3}

RECURSIVE Concat(_)
Concat(chars) == IF chars = <<>> THEN "" ELSE Head(chars) \o Concat(Tail(chars))

Byte(k, c, sess) == [k |-> k, c |-> c, s |-> sess]

\* the first line written in state 3: "PolyDAQ 2 data file, samples at N ms"
Preamble(cfg, sess) ==
    <<Byte("P", "PolyDAQ 2 data file", sess), Byte("P", ",", sess),
      Byte("P", " samples at " \o ToString(cfg.ms_per_reading) \o " ms", sess),
      Byte("P", "\n", sess)>>

\* the cursor after a complete walk of the list
AfterWalk(cfg) == [cfg EXCEPT !.cur = 0]

\* task_sd_card::write_header: the text written when the shared reference is
\* not NULL, walking the list from cur.  The producer task has the higher
\* priority and walks the same list with the same cursor: preemptAt is the
\* position of the column the card task is at when the producer takes a row
\* (0: it takes none during the walk), which leaves the cursor NULL.
RECURSIVE HeaderCols(_, _, _)
HeaderCols(cfg, sess, preemptAt) ==
    IF cfg.cur = 0 THEN <<>>
    ELSE <<Byte("H", ",", sess),
           Byte("H", "\"" \o Concat(cfg.cols[cfg.cur].label) \o "\"", sess)>>
         \o HeaderCols(get_next_channel(IF cfg.cur = preemptAt THEN AfterWalk(cfg)
                                        ELSE cfg),
                       sess, preemptAt)

write_header(cfg, shared, sess, preemptAt) ==
    IF shared
    THEN <<Byte("H", "Time", sess)>>
         \o HeaderCols(get_first_channel(cfg), sess, preemptAt)
         \o <<Byte("H", "\n", sess)>>
    ELSE <<>>

\* emstream::operator << (float), for a number of tenths
FormatTenths(v) ==
    LET a == IF v < 0 THEN 0 - v ELSE v
    IN  (IF v < 0 THEN "-" ELSE "") \o ToString(a \div 10) \o "." \o ToString(a % 10)

\* polydaq2::get_data: the raw reading of the channel a command names.  The
\* commands '0' to '9' read the A/D channel of that number, whose reading is
\* data + the channel number here; a command that names no channel gives 0.
get_data(command, data) ==
    IF IsDigit(command) THEN data + DigitVal(command) ELSE 0

\* task_sd_daq::acquire_sd_data: the row, walking the list from cur
RECURSIVE RowCols(_, _, _)
RowCols(cfg, data, sess) ==
    IF cfg.cur = 0 THEN <<>>
    ELSE LET col == cfg.cols[cfg.cur]
         IN  <<Byte("R", ",", sess),
               Byte("R", FormatTenths(get_data(col.command, data) * col.slope
                                      + col.offset), sess)>>
             \o RowCols(get_next_channel(cfg), data, sess)

\* a row taken from the current column on, without get_first_channel
acquire_sd_data_from_current(cfg, data, sess) ==
    <<Byte("R", "t", sess)>> \o RowCols(cfg, data, sess)
    \o <<Byte("R", "\n", sess)>>

acquire_sd_data(cfg, data, sess) ==
    <<Byte("R", "t", sess)>> \o RowCols(get_first_channel(cfg), data, sess)
    \o <<Byte("R", "\n", sess)>>

\* TextQueue::putchar for each byte, with no waiting when the queue is full
QueuePut(q, bytes) ==
    IF Len(q) + Len(bytes) <= QueueCap THEN q \o bytes
    ELSE q \o SubSeq(bytes, 1, QueueCap - Len(q))

(***************************************************************************)
(* sd_card::putchar for each byte of a text.  The driver is                *)
(* [mounted, dfr, file, buf, data]: file tells what the_file refers to     *)
(* ("none", "config", "data"), data is the text committed to the data file.*)
(* syncOk tells whether the f_sync of a full buffer succeeds.              *)
(***************************************************************************)
ready_to_send(d) == d.mounted /\ d.dfr = FR_OK

\* putchar without the test of ready_to_send
putchar_unchecked(d, b, syncOk) ==
    IF Len(d.buf) + 1 >= BufCap
    THEN [d EXCEPT !.buf = <<>>,
                   !.dfr = IF syncOk THEN FR_OK ELSE FR_DISK_ERR,
                   !.data = IF syncOk THEN d.data \o Append(d.buf, b) ELSE d.data]
    ELSE [d EXCEPT !.buf = Append(d.buf, b)]

putchar(d, b, syncOk) ==
    IF ~ready_to_send(d) THEN d
    ELSE LET nb == Append(d.buf, b)
         IN  IF Len(nb) >= BufCap
             THEN [d EXCEPT !.buf = <<>>,
                            !.dfr = IF syncOk THEN FR_OK ELSE FR_DISK_ERR,
                            !.data = IF syncOk THEN d.data \o nb ELSE d.data]
             ELSE [d EXCEPT !.buf = nb]

\* the bytes stored one after the other with no test for a full buffer
PutAllNoFlush(d, bytes, syncOk) ==
    IF ~ready_to_send(d) THEN d ELSE [d EXCEPT !.buf = d.buf \o bytes]

RECURSIVE PutAll(_, _, _)
PutAll(d, bytes, syncOk) ==
    IF bytes = <<>> THEN d
    ELSE Only({ PutAll(n, Tail(bytes), syncOk)
              : n \in {putchar(d, Head(bytes), syncOk)} })

\* sd_card::mount
mount(d, ok) == [d EXCEPT !.dfr = IF ok THEN FR_OK ELSE FR_DISK_ERR, !.mounted = ok]

\* sd_card::unmount
unmount(d) == [d EXCEPT !.dfr = FR_OK, !.mounted = FALSE, !.file = "none"]

\* a probe that takes the first candidate without looking for its name
ProbeNoStat(names, number) == number

\* the smallest candidate number whose name is not on the card, or MaxNames
RECURSIVE Probe(_, _)
Probe(names, number) ==
    IF number >= MaxNames \/ number \notin names THEN number
    ELSE Probe(names, number + 1)

\* sd_card::open_new_data_file: [fnum, d, names].  statOk and openOk tell
\* whether f_stat and f_open work.
open_new_data_file(d, names, statOk, openOk) ==
    IF ~d.mounted THEN [fnum |-> FAIL_NUMBER, d |-> d, names |-> names]
    ELSE IF ~statOk
         THEN [fnum |-> FAIL_NUMBER, d |-> [d EXCEPT !.dfr = FR_DISK_ERR], names |-> names]
    ELSE LET number == Probe(names, 0)
         IN  IF number >= MaxNames
             THEN [fnum |-> FAIL_NUMBER, d |-> [d EXCEPT !.dfr = FR_OK], names |-> names]
             ELSE IF openOk
                  THEN [fnum |-> number,
                        d |-> [d EXCEPT !.dfr = FR_OK, !.file = "data", !.data = <<>>],
                        names |-> names \cup {number}]
                  ELSE [fnum |-> number,
                        d |-> [d EXCEPT !.dfr = FR_DISK_ERR, !.file = "none"],
                        names |-> names]

(***************************************************************************)
(* The state of the system.                                                *)
(***************************************************************************)
VARIABLES
    cardPresent,    \* what SD_Detect reports
    cardFile,       \* the content of polydaq2.cfg on the card, or NoFile
    names,          \* the numbers of the data files that exist on the card
    inserts,        \* how many times a card has been inserted
    state,          \* the state of the card task
    pc,             \* where the card task is within an iteration of its loop
    hung,           \* the card task is in a loop that never ends
    sd,             \* the sd_card driver object
    logconf,        \* the logger_config object p_logconf
    published,      \* the share p_logger_config holds p_logconf, not NULL
    queue,          \* the SD text queue
    emitted,        \* the rows the producer has emitted since the card went in
    rows,           \* how many rows the producer has emitted
    unsynced,       \* ticks spent in state 4 since the buffer was last empty
    readFailed,     \* a read of a character failed during the last read
    daq,            \* what the producer did in the last iteration of its loop
    spun,           \* the card task's last iteration kept the state and did not block
    i2c             \* the I2C bus driver: its mutex and where each task is in it

vars == <<cardPresent, cardFile, names, inserts, state, pc, hung, sd, logconf,
          published, queue, emitted, rows, daq, unsynced, readFailed, spun, i2c>>

cardVars == <<cardPresent, cardFile, names, inserts>>

\* What an iteration of the producer's loop did: the LED commands it put,
\* the number of channels it read, and the delay that ends it.  Before the
\* first iteration the task has waited delay_ms (2).
DaqStart == [led |-> <<>>, reads |-> 0, wait |-> <<"ms", 2>>]

\* the iteration that finds the shared configuration NULL
DaqIdle == [led |-> <<>>, reads |-> 0, wait |-> <<"ms", 100>>]

\* the iteration that takes a row with the configuration cfg
DaqRow(cfg) ==
    [led |-> <<"Y", "N">>, reads |-> Len(cfg.cols),
     wait |-> <<"ticks", cfg.ticks_per_reading>>]

(***************************************************************************)
(* The I2C bus driver i2c_master, shared by the tasks that read sensors.   *)
(***************************************************************************)

\* the tasks that call the driver
I2CTasks == {"sd_daq", "user", "data_acq"}

\* the priorities the tasks are created with
Priority(t) == IF t = "sd_daq" THEN 3 ELSE 1

\* the number of addresses scan() pings
ScanPings == 2

\* the calls polydaq2::initialize makes, in order, when task_sd_daq starts:
\* the scan of the bus, then the ping, the read of the identity register
\* and the writes of the control registers in mma8452q::initialize
BootCalls == <<"scan", "ping", "read", "write">>

\* The driver after construction and before the first call: the mutex is
\* free, no task is inside the driver; boot is the index in BootCalls of the
\* next call of task_sd_daq.
I2CIdle ==
    [mutex |-> "free",
     pc    |-> [t \in I2CTasks |-> "idle"],
     op    |-> [t \in I2CTasks |-> "none"],
     left  |-> [t \in I2CTasks |-> 0],
     ack   |-> [t \in I2CTasks |-> FALSE],
     boot  |-> 1]

\* values an uninitialised ms_per_reading may hold
UninitMs == {0, 7}

Init ==
    /\ cardPresent = FALSE
    /\ cardFile = NoFile
    /\ names = {}
    /\ inserts = 0
    /\ state = 0
    /\ pc = "loop"
    /\ hung = FALSE
    /\ sd = [mounted |-> FALSE, dfr |-> FR_NOT_READY, file |-> "none",
             buf |-> <<>>, data |-> <<>>]
    /\ \E ms \in UninitMs : logconf = NewConfig(ms)
    /\ published = FALSE
    /\ queue = <<>>
    /\ emitted = <<>>
    /\ rows = 0
    /\ unsynced = 0
    /\ readFailed = FALSE
    /\ daq = DaqStart
    /\ spun = FALSE
    /\ i2c = I2CIdle

(***************************************************************************)
(* The environment: a card is put into the socket or pulled out of it.     *)
(***************************************************************************)
CardInsert ==
    /\ ~cardPresent
    /\ inserts < MaxInserts
    /\ cardPresent' = TRUE
    /\ inserts' = inserts + 1
    /\ cardFile' \in ConfigFiles \cup {NoFile}
    /\ emitted' = <<>>
    /\ UNCHANGED <<names, state, pc, hung, sd, logconf, published, queue, rows,
                   unsynced, readFailed, daq, spun, i2c>>

CardRemove ==
    /\ cardPresent
    /\ cardPresent' = FALSE
    /\ UNCHANGED <<cardFile, names, inserts, state, pc, hung, sd, logconf,
                   published, queue, emitted, rows, daq, unsynced, readFailed, spun, i2c>>

(***************************************************************************)
(* task_sd_card::run, one action per state of its switch.                  *)
(***************************************************************************)
Running == ~hung /\ pc = "loop"

\* an iteration of the loop that began in state st, ended in state st2 and
\* called delay_ms for ms milliseconds (0: no call) kept the state and did
\* not block
Spun(st, st2, ms) == st2 = st /\ ms = 0

\* state 0: wait for a card
NoCard ==
    /\ Running /\ state = 0
    /\ state' = IF cardPresent THEN 1 ELSE 0
    /\ UNCHANGED <<cardVars, pc, hung, sd, logconf, published, queue, emitted,
                   rows, unsynced, readFailed, daq>>
    /\ spun' = Spun(state, state', IF cardPresent THEN 0 ELSE 1000)
    /\ UNCHANGED i2c

\* state 1 without the check for the card
MountingNoDetect ==
    /\ Running /\ state = 1
    /\ \E ok \in BOOLEAN :
           /\ sd' = mount(sd, ok)
           /\ state' = IF ok THEN 2 ELSE 0
    /\ UNCHANGED <<cardVars, pc, hung, logconf, published, queue, emitted,
                   rows, unsynced, readFailed, daq>>
    /\ spun' = Spun(state, state', IF sd'.mounted THEN 0 ELSE 5000)
    /\ UNCHANGED i2c

\* state 1: mount the card
Mounting ==
    /\ Running /\ state = 1
    /\ IF ~cardPresent
       THEN state' = 0 /\ sd' = sd
       ELSE \E ok \in BOOLEAN :
                /\ sd' = mount(sd, ok)
                /\ state' = IF ok THEN 2 ELSE 0
    /\ UNCHANGED <<cardVars, pc, hung, logconf, published, queue, emitted,
                   rows, unsynced, readFailed, daq>>
    /\ spun' = Spun(state, state', IF (~cardPresent) \/ sd'.mounted THEN 0 ELSE 5000)
    /\ UNCHANGED i2c

\* state 2: read the configuration file.  failAt is the character of the
\* file whose read fails (0: none); pulled tells that it fails because the
\* card is pulled out during the read.
ReadingConfig ==
    /\ Running /\ state = 2
    /\ IF cardPresent
       THEN \E failAt \in 0..Len(cardFile), pulled \in BOOLEAN :
                \E r \in {read(logconf, sd.mounted, sd.dfr, cardFile, failAt)} :
                    /\ pulled => failAt > 0 /\ r.opened
                    /\ cardPresent' = ~pulled
                    /\ readFailed' = (failAt > 0)
                    /\ logconf' = r.cfg
                    /\ hung' = r.hung
                    /\ IF r.hung
                       THEN /\ sd' = [sd EXCEPT !.dfr = r.dfr, !.file = r.file]
                            /\ UNCHANGED <<state, published>>
                       ELSE IF r.cfg.config_valid
                       THEN /\ sd' = [sd EXCEPT !.dfr = r.dfr, !.file = r.file]
                            /\ published' = TRUE
                            /\ state' = 3
                       ELSE /\ sd' = unmount([sd EXCEPT !.dfr = r.dfr, !.file = r.file])
                            /\ published' = FALSE
                            /\ state' = 9
       ELSE /\ published' = FALSE
            /\ state' = 0
            /\ UNCHANGED <<cardPresent, logconf, hung, sd, readFailed>>
    /\ UNCHANGED <<cardFile, names, inserts, pc, queue, emitted, rows, daq, unsynced>>
    /\ spun' = (~hung' /\ Spun(state, state', 0))
    /\ UNCHANGED i2c

\* state 3: open the data file, write the first line and the header.  The
\* producer may take a row while the header is written (preemptAt).
OpeningFile ==
    /\ Running /\ state = 3
    /\ IF ~cardPresent
       THEN /\ published' = FALSE
            /\ state' = 0
            /\ UNCHANGED <<sd, names, logconf, queue, emitted, rows, daq>>
       ELSE \E statOk \in BOOLEAN, openOk \in BOOLEAN, syncOk \in BOOLEAN :
                \E o \in {open_new_data_file(sd, names, statOk, openOk)} :
                    /\ names' = o.names
                    /\ IF o.fnum = FAIL_NUMBER
                       THEN /\ sd' = unmount(o.d)
                            /\ state' = 0
                            /\ UNCHANGED <<logconf, queue, emitted, rows, daq>>
                       ELSE \E preemptAt \in 0..Len(logconf.cols) :
                            /\ sd' = PutAll(o.d, Preamble(logconf, inserts)
                                                 \o write_header(logconf, published,
                                                                 inserts, preemptAt),
                                            syncOk)
                            /\ logconf' = IF published THEN AfterWalk(logconf) ELSE logconf
                            /\ state' = 4
                            /\ IF preemptAt = 0
                               THEN UNCHANGED <<queue, emitted, rows, daq>>
                               ELSE /\ published /\ rows < MaxRows
                                    /\ \E data \in RawValues :
                                         \E row \in {acquire_sd_data(logconf, data, inserts)} :
                                             /\ queue' = QueuePut(queue, row)
                                             /\ emitted' = emitted \o row
                                    /\ rows' = rows + 1
                                    /\ daq' = DaqRow(logconf)
                    /\ UNCHANGED published
    /\ UNCHANGED <<cardPresent, cardFile, inserts, pc, hung, unsynced, readFailed>>
    /\ spun' = Spun(state, state', IF cardPresent /\ state' = 0 THEN 5000 ELSE 0)
    /\ UNCHANGED i2c

\* state 4, first part: write what is in the queue to the card
Streaming ==
    /\ Running /\ state = 4
    /\ \E syncOk \in BOOLEAN : sd' = PutAll(sd, queue, syncOk)
    /\ queue' = <<>>
    /\ pc' = "detect"
    /\ unsynced' = IF sd'.buf = <<>> THEN 0 ELSE unsynced
    /\ UNCHANGED <<cardVars, state, hung, logconf, published, emitted, rows, daq, readFailed, spun, i2c>>

\* state 4, second part: check for the card, then delay_ms (1)
StreamingDetect ==
    /\ ~hung /\ pc = "detect"
    /\ pc' = "loop"
    /\ IF ~cardPresent
       THEN /\ sd' = unmount(sd)
            /\ published' = FALSE
            /\ state' = 0
            /\ unsynced' = 0
       ELSE /\ unsynced' = IF sd.buf = <<>> THEN 0
                           ELSE IF unsynced > SyncTicks THEN unsynced
                           ELSE unsynced + 1
            /\ UNCHANGED <<sd, published, state>>
    /\ UNCHANGED <<cardVars, hung, logconf, queue, emitted, rows, daq, readFailed>>
    /\ spun' = Spun(state, state', 1)
    /\ UNCHANGED i2c

\* state 9 that tries the card again by itself
BadConfigRetry ==
    /\ Running /\ state = 9
    /\ state' = IF ~cardPresent THEN 0 ELSE 1
    /\ UNCHANGED <<cardVars, pc, hung, sd, logconf, published, queue, emitted,
                   rows, unsynced, readFailed, daq>>
    /\ spun' = Spun(state, state', 0)
    /\ UNCHANGED i2c

\* state 9: bad configuration file; wait until the card has been removed
BadConfig ==
    /\ Running /\ state = 9
    /\ state' = IF ~cardPresent THEN 0 ELSE 9
    /\ UNCHANGED <<cardVars, pc, hung, sd, logconf, published, queue, emitted,
                   rows, unsynced, readFailed, daq>>
    /\ spun' = Spun(state, state', 0)
    /\ UNCHANGED i2c

(***************************************************************************)
(* task_sd_daq::run: one iteration of the producer's loop.  The producer   *)
(* has the higher priority, so an iteration is not interrupted by the card *)
(* task.                                                                   *)
(***************************************************************************)
\* the loop without the test of the shared configuration
ProducerNoNullCheck ==
    /\ rows < MaxRows
    /\ \E data \in RawValues :
           LET row == acquire_sd_data(logconf, data, inserts)
           IN  /\ queue' = QueuePut(queue, row)
               /\ emitted' = emitted \o row
    /\ logconf' = AfterWalk(logconf)
    /\ rows' = rows + 1
    /\ daq' = DaqRow(logconf)
    /\ UNCHANGED <<cardVars, state, pc, hung, sd, published, unsynced, readFailed, spun, i2c>>

Producer ==
    /\ IF published
       THEN /\ rows < MaxRows
            /\ \E data \in RawValues :
                   LET row == acquire_sd_data(logconf, data, inserts)
                   IN  /\ queue' = QueuePut(queue, row)
                       /\ emitted' = emitted \o row
            /\ logconf' = AfterWalk(logconf)
            /\ rows' = rows + 1
            /\ daq' = DaqRow(logconf)
       ELSE /\ daq' = DaqIdle
            /\ UNCHANGED <<queue, emitted, logconf, rows>>
    /\ UNCHANGED <<cardVars, state, pc, hung, sd, published, unsynced, readFailed, spun, i2c>>

Next ==
    \/ CardInsert
    \/ CardRemove
    \/ NoCard
    \/ Mounting
    \/ ReadingConfig
    \/ OpeningFile
    \/ Streaming
    \/ StreamingDetect
    \/ BadConfig
    \/ Producer

Spec == Init /\ [][Next]_vars

(***************************************************************************)
(* The reading of the configuration file by itself: the card task is in    *)
(* state 2 with a card mounted, the file is built of lines of a pool, and  *)
(* the producer takes a row once the configuration is published.           *)
(***************************************************************************)
\* the longest label of a column line of the pool
MaxLabel == 26
\* the number of lines of the longest file
MaxLines == 2

Letters ==
    <<"A", "B", "C", "D", "E", "F", "G", "H", "I", "J", "K", "L", "M", "N", "O",
      "P", "Q", "R", "S", "T", "U", "V", "W", "X", "Y", "Z", "a", "b", "c", "d">>

LabelOf(n) == SubSeq(Letters, 1, n)

\* T:<digits>
PeriodLine(digits) == <<"T", ":">> \o digits

\* the numbers of the period lines: 0, 5, 19505, 60000 and none
PeriodDigits ==
    {<<"0">>, <<"5">>, <<"1", "9", "5", "0", "5">>, <<"6", "0", "0", "0", "0">>, <<>>}

\* C:0 1 0 "<label>", with or without the closing quotation mark
ColumnLine(label, closed) ==
    <<"C", ":", "0", " ", "1", " ", "0", " ", "\"">> \o label
    \o (IF closed THEN <<"\"">> ELSE <<>>)

\* labels of one character and of MAX_COL_LABEL_LEN characters and more
LabelLengths == {1} \cup (MAX_COL_LABEL_LEN..MaxLabel)

\* lines that begin with neither T nor C
OtherLines == {<<"#", "5">>, <<" ", "x", " ", "7">>}

LinePool ==
    {PeriodLine(d) : d \in PeriodDigits}
    \cup {ColumnLine(LabelOf(n), TRUE) : n \in LabelLengths}
    \cup {ColumnLine(LabelOf(1), FALSE), <<"C", ":", "0">>}
    \cup OtherLines

\* the file of some lines, each ended by a line feed
RECURSIVE FileOf(_)
FileOf(lines) ==
    IF lines = <<>> THEN <<>> ELSE Head(lines) \o <<"\n">> \o FileOf(Tail(lines))

ParseFiles == {FileOf(ls) : ls \in UNION {[1..n -> LinePool] : n \in 1..MaxLines}}

\* the object before the read: as constructed, or as an earlier card's
\* FileTwoCols left it
PrevConfigs ==
    {NewConfig(ms) : ms \in UninitMs}
    \cup {AfterWalk(read(NewConfig(0), TRUE, FR_OK, FileTwoCols, 0).cfg)}

InitParse ==
    /\ cardPresent = TRUE
    /\ cardFile \in ParseFiles
    /\ names = {}
    /\ logconf \in PrevConfigs
    /\ inserts = IF logconf.config_valid THEN 2 ELSE 1
    /\ state = 2
    /\ pc = "loop"
    /\ hung = FALSE
    /\ sd = [mounted |-> TRUE, dfr |-> FR_OK, file |-> "none",
             buf |-> <<>>, data |-> <<>>]
    /\ published = FALSE
    /\ queue = <<>>
    /\ emitted = <<>>
    /\ rows = 0
    /\ unsynced = 0
    /\ readFailed = FALSE
    /\ daq = DaqIdle
    /\ spun = FALSE
    /\ i2c = I2CIdle

NextParse ==
    \/ ReadingConfig
    \/ Producer

SpecParse == InitParse /\ [][NextParse]_vars

(***************************************************************************)
(* The tasks inside the I2C driver.  Each call of start, restart,          *)
(* write_byte, read_byte, stop, xSemaphoreTake and xSemaphoreGive is a     *)
(* step; the scheduler runs the task of highest priority that is not       *)
(* blocked, and tasks of equal priority share the processor.               *)
(***************************************************************************)

otherVars == <<cardPresent, cardFile, names, inserts, state, pc, hung, sd,
               logconf, published, queue, emitted, rows, daq, unsynced,
               readFailed, spun>>

\* task_sd_daq is still in polydaq2::initialize
Booting == i2c.boot <= Len(BootCalls)

\* The task t does not want the processor: it is outside the driver (in a
\* delay or waiting for a command; task_sd_daq not before its initialize is
\* over), or it waits for the mutex another task holds.
Blocked(t) ==
    \/ i2c.pc[t] = "idle" /\ (t = "sd_daq" => ~Booting)
    \/ i2c.pc[t] = "take" /\ i2c.mutex # "free"

\* the scheduler lets t run: every task of higher priority is blocked
Runs(t) == \A u \in I2CTasks : Priority(u) > Priority(t) => Blocked(u)

\* the calls the task t makes
Calls(t) ==
    IF t = "sd_daq"
    THEN IF Booting THEN {BootCalls[i2c.boot]} ELSE {"read"}
    ELSE IF t = "user" THEN {"scan", "read"} ELSE {"read"}

\* the task t has issued a start condition and not yet the stop condition
Driving(t) == i2c.pc[t] \in {"addr", "restart", "raddr", "data", "stop"}

\* A task enters read, write, ping or scan.  read and write begin with
\* xSemaphoreTake, ping begins with start; scan calls ping for each address.
I2CCall ==
    /\ \E t \in I2CTasks : \E o \in Calls(t) :
         /\ Runs(t)
         /\ i2c.pc[t] = "idle"
         /\ i2c' = [i2c EXCEPT
                      !.op[t] = o,
                      !.pc[t] = IF o \in {"read", "write"} THEN "take" ELSE "start",
                      !.left[t] = IF o = "scan" THEN ScanPings
                                  ELSE IF o = "ping" THEN 1 ELSE 0,
                      !.boot = IF t = "sd_daq" /\ Booting THEN @ + 1 ELSE @]
    /\ UNCHANGED otherVars

\* xSemaphoreTake (mutex, portMAX_DELAY)
I2CTake ==
    /\ \E t \in I2CTasks :
         /\ Runs(t)
         /\ i2c.pc[t] = "take"
         /\ i2c.mutex = "free"
         /\ i2c' = [i2c EXCEPT !.mutex = t, !.pc[t] = "start"]
    /\ UNCHANGED otherVars

\* start ()
I2CStart ==
    /\ \E t \in I2CTasks :
         /\ Runs(t)
         /\ i2c.pc[t] = "start"
         /\ i2c' = [i2c EXCEPT !.pc[t] = "addr"]
    /\ UNCHANGED otherVars

\* write_byte of the address (and of the register and the data): the device
\* acknowledges or not.  read and write give the mutex back and return when
\* it does not; ping keeps the answer and goes on to stop.
I2CWriteByte ==
    /\ \E t \in I2CTasks : \E acked \in BOOLEAN :
         /\ Runs(t)
         /\ i2c.pc[t] \in {"addr", "raddr"}
         /\ i2c' = [i2c EXCEPT
                      !.ack[t] = acked,
                      !.pc[t] = IF i2c.op[t] \in {"ping", "scan"} THEN "stop"
                                ELSE IF ~acked THEN "give"
                                ELSE IF i2c.op[t] = "write" THEN "stop"
                                ELSE IF i2c.pc[t] = "addr" THEN "restart"
                                ELSE "data"]
    /\ UNCHANGED otherVars

\* restart () in read
I2CRestart ==
    /\ \E t \in I2CTasks :
         /\ Runs(t)
         /\ i2c.pc[t] = "restart"
         /\ i2c' = [i2c EXCEPT !.pc[t] = "raddr"]
    /\ UNCHANGED otherVars

\* read_byte in read
I2CReadByte ==
    /\ \E t \in I2CTasks :
         /\ Runs(t)
         /\ i2c.pc[t] = "data"
         /\ i2c' = [i2c EXCEPT !.pc[t] = "stop"]
    /\ UNCHANGED otherVars

\* stop ().  read and write go on to give the mutex back; ping returns, and
\* scan calls ping again while addresses are left.  mma8452q::initialize
\* makes no further call when its ping found no device.
I2CStop ==
    /\ \E t \in I2CTasks :
         /\ Runs(t)
         /\ i2c.pc[t] = "stop"
         /\ i2c' = [i2c EXCEPT
                      !.pc[t] = IF i2c.op[t] \in {"read", "write"} THEN "give"
                                ELSE IF i2c.left[t] > 1 THEN "start"
                                ELSE "idle",
                      !.left[t] = IF i2c.op[t] \in {"read", "write"} THEN @
                                  ELSE @ - 1,
                      !.op[t] = IF i2c.op[t] \in {"read", "write"} \/ i2c.left[t] > 1
                                THEN @ ELSE "none",
                      !.boot = IF t = "sd_daq" /\ i2c.op[t] = "ping" /\ ~i2c.ack[t]
                               THEN Len(BootCalls) + 1 ELSE @]
    /\ UNCHANGED otherVars

\* xSemaphoreGive (mutex) and the return that follows it
I2CGive ==
    /\ \E t \in I2CTasks :
         /\ Runs(t)
         /\ i2c.pc[t] = "give"
         /\ i2c' = [i2c EXCEPT
                      !.mutex = "free", !.pc[t] = "idle", !.op[t] = "none"]
    /\ UNCHANGED otherVars

NextI2C ==
    \/ I2CCall
    \/ I2CTake
    \/ I2CStart
    \/ I2CWriteByte
    \/ I2CRestart
    \/ I2CReadByte
    \/ I2CStop
    \/ I2CGive

SpecI2C == Init /\ [][NextI2C]_vars

(***************************************************************************)
(* Properties.                                                             *)
(***************************************************************************)

\* C1: the shared configuration reference is non-null if and only if the
\* card task is in OpeningFile (3) or Streaming (4).
C1_SharedConfigIffOpeningOrStreaming == published <=> state \in {3, 4}

\* C2: when the configuration file cannot be opened, read() leaves the
\* configuration invalid with an empty column list, and the card task goes
\* from ReadingConfig to BadConfig, never to OpeningFile.
C2_UnreadableConfigIsBad ==
    [][(state = 2 /\ state' # 2 /\ cardPresent /\ cardFile = NoFile)
       => (state' = 9 /\ ~logconf'.config_valid /\ logconf'.cols = <<>>)]_vars

\* C3: while the shared configuration reference is non-null, the card task
\* does not modify the column list, the sample period or the validity flag
\* of the object it refers to.
C3_PublishedConfigNotModified ==
    [][(published /\ published')
       => (/\ logconf'.cols = logconf.cols
           /\ logconf'.ms_per_reading = logconf.ms_per_reading
           /\ logconf'.ticks_per_reading = logconf.ticks_per_reading
           /\ logconf'.config_valid = logconf.config_valid)]_vars

\* the complete lines of a text
RECURSIVE LinesOf(_, _)
LinesOf(text, line) ==
    IF text = <<>> THEN <<>>
    ELSE IF Head(text).c = "\n" THEN <<line>> \o LinesOf(Tail(text), <<>>)
    ELSE LinesOf(Tail(text), Append(line, Head(text)))

\* the number of comma-separated fields of a line
Fields(line) == 1 + Cardinality({i \in 1..Len(line) : line[i].c = ","})

\* C4: in the data file, the header line and every data line have 1 + N
\* comma-separated fields, N being the number of columns of the
\* configuration published for the file.
C4_FieldsPerLine ==
    state = 4 =>
        LET lines == LinesOf(sd.data, <<>>)
        IN  \A i \in 1..Len(lines) :
                (lines[i] # <<>> /\ lines[i][1].c \in {"Time", "t"})
                => Fields(lines[i]) = 1 + Len(logconf.cols)

\* C5: when opening the new data file fails the card task unmounts and goes
\* to NoCard; it enters Streaming only with a data file open for writing.
C5_StreamingOnlyWithOpenFile ==
    [][(state = 3 /\ state' # 3 /\ cardPresent)
       => IF sd'.file = "data" THEN state' = 4
          ELSE state' = 0 /\ ~sd'.mounted]_vars

\* C6: in Streaming, bytes accepted by the driver are committed to the card
\* within one flush period: they never wait in the buffer for more than
\* SD_TICKS_PER_SYNC ticks.
C6_FlushedWithinPeriod == unsynced <= SyncTicks

\* the bytes of a text that belong to data rows
RowBytes(text) == SelectSeq(text, LAMBDA b : b.k = "R")

IsPrefix(a, b) == Len(a) <= Len(b) /\ SubSeq(b, 1, Len(a)) = a

\* C7: the data bytes committed to the open file are a prefix of the bytes
\* the producer emitted during this card session.
C7_FileIsPrefixOfEmitted == state = 4 => IsPrefix(RowBytes(sd.data), emitted)

\* C8: after a write or sync failure in Streaming the card task goes back to
\* NoCard: an iteration of its loop that ends with the driver in error, where
\* the driver discards the data, does not end in Streaming.
C8_WriteFailureLeavesStreaming ==
    [][(state = 4 /\ pc = "detect" /\ pc' = "loop" /\ sd.dfr # FR_OK)
       => state' = 0]_vars

\* C9: the card task is never stuck while the card is absent.
C9_ExtractionNeverHangs == hung => cardPresent

\* C10: read() terminates for every content of the configuration file when
\* every character can be read.
C10_ReadTerminates == hung => readFailed

\* an iteration of the card task's loop in which SD_Detect is called
DetectStep == Mounting \/ ReadingConfig \/ OpeningFile \/ StreamingDetect \/ BadConfig

\* C11: the card task starts in NoCard, and from Mounting, ReadingConfig,
\* OpeningFile, Streaming and BadConfig an iteration of its loop that finds
\* the card absent ends in NoCard.
C11_AbsentCardLeadsToNoCard ==
    /\ state = 0
    /\ [][(state \in {1, 2, 3, 4, 9} /\ ~cardPresent /\ DetectStep) => state' = 0]_vars

\* C11 witness: a data file was opened, so Streaming was reached, and the
\* task is back in NoCard with the card out of the socket.
C11_Witness == state = 0 /\ ~cardPresent /\ names # {} /\ sd.file = "none"

\* the state changes of the transition table, each with its trigger
TableStep ==
    \/ state = 0 /\ state' = 1 /\ cardPresent
    \/ state = 1 /\ state' = 0 /\ (~cardPresent \/ ~sd'.mounted)
    \/ state = 1 /\ state' = 2 /\ cardPresent /\ sd'.mounted
    \/ state = 2 /\ state' = 0 /\ ~cardPresent
    \/ state = 2 /\ state' = 9 /\ cardPresent /\ ~logconf'.config_valid
    \/ state = 2 /\ state' = 3 /\ cardPresent /\ logconf'.config_valid
    \/ state = 3 /\ state' = 0 /\ (~cardPresent \/ sd'.file # "data")
    \/ state = 3 /\ state' = 4 /\ cardPresent /\ sd'.file = "data"
    \/ state = 4 /\ state' = 0 /\ ~cardPresent
    \/ state = 9 /\ state' = 0 /\ ~cardPresent

\* C12: the state of the card task is one of 0, 1, 2, 3, 4 and 9, and it
\* changes only by a transition of the table, taken under the trigger the
\* table gives for it.
C12_TransitionTable ==
    /\ [](state \in {0, 1, 2, 3, 4, 9})
    /\ [][state' # state => TableStep]_vars

\* C13: in BadConfig the shared configuration is null and the card is
\* unmounted with no file open; the task leaves BadConfig only for NoCard
\* and only when it finds the card absent, and while it is in BadConfig no
\* data file is created or written and the configuration is not read again.
C13_BadConfigUntilRemoval ==
    /\ [](state = 9 => ~published /\ ~sd.mounted /\ sd.file = "none")
    /\ [][state = 9 => /\ state' # 9 => (state' = 0 /\ ~cardPresent)
                       /\ sd'.data = sd.data
                       /\ names' = names
                       /\ logconf' = logconf]_vars

\* C13 witness: the task is in BadConfig with the card in the socket after
\* the card task has run an iteration of state 9
C13_Witness == state = 9 /\ cardPresent /\ ~logconf.config_valid /\ sd.dfr = FR_OK

\* the candidate numbers whose names are not on the card
FreeNumbers(used) == {n \in 0..(MaxNames - 1) : n \notin used}

Smallest(S) == CHOOSE n \in S : \A m \in S : n <= m

\* what open_new_data_file is to return
ExpectedNumber(d, used, statOk) ==
    IF (~d.mounted) \/ ~statOk \/ FreeNumbers(used) = {} THEN FAIL_NUMBER
    ELSE Smallest(FreeNumbers(used))

RECURSIVE QuotedLabels(_, _)
QuotedLabels(cols, sess) ==
    IF cols = <<>> THEN <<>>
    ELSE <<Byte("H", ",", sess), Byte("H", "\"" \o Concat(Head(cols).label) \o "\"", sess)>>
         \o QuotedLabels(Tail(cols), sess)

\* the header line of a configuration
HeaderLine(cfg, sess) ==
    <<Byte("H", "Time", sess)>> \o QuotedLabels(cfg.cols, sess) \o <<Byte("H", "\n", sess)>>

\* the texts of a sequence of bytes
Texts(bytes) == [i \in 1..Len(bytes) |-> bytes[i].c]

\* C15: the text of a newly opened data file begins with the header line,
\* Time followed by one quoted label for each configured column; no other
\* text comes before it.
C15_HeaderIsFirstLine ==
    (state = 4 /\ sd.file = "data" /\ sd.dfr = FR_OK)
    => IsPrefix(Texts(HeaderLine(logconf, inserts)), Texts(sd.data \o sd.buf))

\* C16: when unmount returns, no byte that putchar accepted is left in the
\* driver's buffer only (close_file is not called on a data file).
C16_UnmountLeavesNothingBuffered ==
    [][(state \in {2, 3, 4} /\ sd.mounted /\ ~sd'.mounted) => sd'.buf = <<>>]_vars

\* C17: a column line whose label has no closing quote gives one column, the
\* label ending with the line, and the line after it is read as a line of
\* its own: the two column lines of FileOpenLabel give two columns.
C17_UnclosedLabelEndsWithLine ==
    [][(state = 2 /\ cardPresent /\ cardFile = FileOpenLabel /\ ~readFailed'
        /\ ReadingConfig)
       => /\ ~hung'
          /\ Len(logconf'.cols) = 2
          /\ logconf'.cols[1].label = <<"A">>
          /\ logconf'.cols[2].label = <<"B">>]_vars

\* C18: the card task changes the buffer or the file only in states 3 and 4,
\* with the card mounted, the driver's last result FR_OK, a data file open
\* and the configuration published; putchar changes nothing otherwise.
C18_WritesOnlyWhenReady ==
    /\ [](\A syncOk \in BOOLEAN :
            ~ready_to_send(sd) => putchar(sd, Byte("R", "t", inserts), syncOk) = sd)
    /\ [][(sd'.buf # sd.buf \/ (sd'.data # sd.data /\ sd'.data # <<>>))
           => /\ state \in {3, 4}
              /\ sd.mounted /\ sd'.mounted
              /\ state = 4 => sd.dfr = FR_OK
              /\ sd'.file = "data"
              /\ published]_vars

\* C18 witness: bytes have been committed to an open data file
C18_Witness ==
    /\ state = 4 /\ sd.mounted /\ sd.file = "data" /\ published
    /\ \E i \in 1..Len(sd.data) : sd.data[i].k = "R"

\* the descriptors a traversal with get_first_channel and get_next_channel
\* yields
RECURSIVE WalkFrom(_)
WalkFrom(cfg) ==
    IF cfg.cur = 0 THEN <<>>
    ELSE <<cfg.cols[cfg.cur]>> \o WalkFrom(get_next_channel(cfg))

Traverse(cfg) == WalkFrom(get_first_channel(cfg))

\* the well-formed column lines of the configuration files, in file order
ColumnLines(f) ==
    IF f = FileTwoCols
    THEN <<[command |-> "0", slope |-> 25, offset |-> 10, label |-> <<"A">>],
           [command |-> "1", slope |-> 10, offset |-> 0, label |-> <<"B">>]>>
    ELSE <<>>

\* C19: after read() of a file with k well-formed column lines a traversal
\* yields the k descriptors of these lines in file order, whatever list an
\* earlier read() had built.
C19_TraversalInFileOrder ==
    [][(state = 2 /\ cardPresent /\ cardFile \in {FileTwoCols, FileComment}
        /\ ~readFailed' /\ ReadingConfig)
       => Traverse(logconf') = ColumnLines(cardFile)]_vars

\* C19 witness: the two columns of FileTwoCols have been read on the second
\* card, after the first card's file had given a list of its own, a label
\* of which is still in the driver's buffer
C19_Witness ==
    /\ inserts = 2 /\ cardFile = FileTwoCols /\ state = 3 /\ ~readFailed
    /\ Len(logconf.cols) = 2
    /\ \E i \in 1..Len(sd.buf) :
           sd.buf[i].k = "H" /\ sd.buf[i].s = 1 /\ sd.buf[i].c \notin {"Time", ",", "\n"}

\* the values of a row: for each column of a list, in order, a comma and
\* the reading of the column's channel times its slope plus its offset
RECURSIVE RowValues(_, _, _)
RowValues(cols, data, sess) ==
    IF cols = <<>> THEN <<>>
    ELSE <<Byte("R", ",", sess),
           Byte("R", FormatTenths(get_data(Head(cols).command, data) * Head(cols).slope
                                  + Head(cols).offset), sess)>>
         \o RowValues(Tail(cols), data, sess)

\* C20: a row the producer emits is the timestamp, then for each column in
\* configuration order a comma and get_data(command) * slope + offset of
\* that column, then the line separator.
C20_RowFollowsColumns ==
    [][(rows' = rows + 1)
       => \E data \in RawValues :
              emitted' = emitted \o <<Byte("R", "t", inserts)>>
                                 \o RowValues(logconf.cols, data, inserts)
                                 \o <<Byte("R", "\n", inserts)>>]_vars

\* C20 witness: a row of two columns has been emitted, 3 * 2.5 + 1.0 for
\* channel 0 and 4 * 1.0 + 0.0 for channel 1
C20_Witness ==
    /\ Len(logconf.cols) = 2 /\ rows = 1 /\ Len(emitted) = 6
    /\ emitted[3].c = "8.5" /\ emitted[5].c = "4.0"

\* C21: an iteration of the producer's loop that reads a null shared
\* configuration puts nothing to the SD text queue and no command to the LED
\* queue, reads no channel, leaves the configuration object alone and ends
\* with the 100 ms delay.
C21_NullConfigIdles ==
    [][(~published /\ Producer)
       => /\ queue' = queue
          /\ emitted' = emitted
          /\ rows' = rows
          /\ logconf' = logconf
          /\ daq'.led = <<>>
          /\ daq'.reads = 0
          /\ daq'.wait = <<"ms", 100>>]_vars

\* C21 witness: the producer has taken a row and, the share being null
\* again, has gone through an idle iteration
C21_Witness == ~published /\ rows = 1 /\ emitted # <<>> /\ daq = DaqIdle

\* C22: a configuration the card task publishes has a sample period of
\* MIN_MS_PER_READING to MAX_MS_PER_READING milliseconds, and the delay that
\* ends an iteration in which the producer took a row is not 0 ticks.
C22_PeriodInRange ==
    /\ published => logconf.ms_per_reading \in MIN_MS_PER_READING..MAX_MS_PER_READING
    /\ daq.wait[1] = "ticks" => daq.wait[2] # 0

\* the files whose first line is a column line with a closed label of n
\* characters, alone or followed by another line of the pool
LabelFirst(n) ==
    {FileOf(<<ColumnLine(LabelOf(n), TRUE)>> \o rest)
       : rest \in {<<>>} \cup {<<l>> : l \in LinePool}}

\* the first n characters of a label, or all of it when it is shorter
Truncated(label, n) == IF Len(label) > n THEN SubSeq(label, 1, n) ELSE label

\* C23: a stored label is never longer than MAX_COL_LABEL_LEN characters, so
\* that the temporary buffer, which ends with the 0 behind the label, is
\* written at index MAX_COL_LABEL_LEN at most; a column line with a longer
\* label gives a column whose label is the first MAX_COL_LABEL_LEN characters.
C23_LongLabelTruncated ==
    /\ [](\A i \in 1..Len(logconf.cols) :
            Len(logconf.cols[i].label) <= MAX_COL_LABEL_LEN)
    /\ [][(state = 2 /\ cardPresent /\ ~readFailed'
           /\ cardFile \in UNION {LabelFirst(n) : n \in LabelLengths}
           /\ ReadingConfig)
          => \A n \in LabelLengths :
                 cardFile \in LabelFirst(n)
                 => /\ Len(logconf'.cols) >= 1
                    /\ logconf'.cols[1].label
                         = Truncated(LabelOf(n), MAX_COL_LABEL_LEN)
                    /\ logconf'.cols[1].command = "0"]_vars

\* C23 witness: the line with the longest label of the pool has been read
\* and the column has the first MAX_COL_LABEL_LEN characters of it
C23_Witness ==
    /\ state = 3 /\ ~readFailed
    /\ cardFile = FileOf(<<ColumnLine(LabelOf(MaxLabel), TRUE)>>)
    /\ Len(logconf.cols) = 1
    /\ logconf.cols[1].label = LabelOf(MAX_COL_LABEL_LEN)
    /\ MaxLabel > MAX_COL_LABEL_LEN

\* the physical lines of a file, each with the line feed that ends it
RECURSIVE PhysicalLines(_, _)
PhysicalLines(f, line) ==
    IF f = <<>> THEN (IF line = <<>> THEN <<>> ELSE <<line>>)
    ELSE IF Head(f) = "\n"
         THEN <<Append(line, "\n")>> \o PhysicalLines(Tail(f), <<>>)
    ELSE PhysicalLines(Tail(f), Append(line, Head(f)))

\* a line whose first non-blank character is neither T nor C
IsOtherLine(line) ==
    LET text == SelectSeq(line, LAMBDA c : c \notin {" ", "\t", "\r", "\n"})
    IN  text # <<>> /\ text[1] \notin {"T", "C"}

RECURSIVE Flatten(_)
Flatten(lines) == IF lines = <<>> THEN <<>> ELSE Head(lines) \o Flatten(Tail(lines))

\* the file without these lines
WithoutOtherLines(f) ==
    Flatten(SelectSeq(PhysicalLines(f, <<>>), LAMBDA l : ~IsOtherLine(l)))

C25_TraversalVisitsEveryColumn ==
    [][/\ (state = 3 /\ state' = 4 /\ published /\ sd.buf = <<>>
           /\ sd'.file = "data" /\ sd'.dfr = FR_OK)
          => Texts(sd'.data \o sd'.buf)
               = Texts(Preamble(logconf, inserts) \o HeaderLine(logconf, inserts))
       /\ (rows' = rows + 1)
          => Len(emitted') = Len(emitted) + 2 + 2 * Len(logconf.cols)]_vars

\* every byte of a text was produced during the card insertion sess
AllOfSession(text, sess) == \A i \in 1..Len(text) : text[i].s = sess

\* C26: when state 3 opens a new data file, the driver's buffer holds no
\* byte produced during an earlier card insertion, and the text of the new
\* file has none either.  (The rows that wait in the SD text queue are the
\* matter of C4 and C7.)
C26_NoBytesOfEarlierSessions ==
    [][(state = 3 /\ cardPresent /\ sd'.file = "data")
       => /\ AllOfSession(sd.buf, inserts)
          /\ AllOfSession(sd'.data \o sd'.buf, inserts)]_vars

\* C27: no iteration of the card task's loop keeps the state without
\* blocking in a delay.
C27_EveryIdleIterationBlocks == ~spun

\* C28: for a valid configuration the number of ticks per sample is the
\* number of milliseconds per sample times configTICK_RATE_HZ / 1000, not
\* reduced modulo 2^16.
C28_TicksMatchPeriod ==
    logconf.config_valid
    => logconf.ticks_per_reading
         = (logconf.ms_per_reading * configTICK_RATE_HZ) \div 1000

\* C29: at most one task is between a start condition and the stop
\* condition that ends it on the I2C bus, and a task that has returned from
\* the driver does not hold the mutex.
C29_OneTaskDrivesTheBus ==
    /\ Cardinality({t \in I2CTasks : Driving(t)}) <= 1
    /\ \A t \in I2CTasks : i2c.pc[t] = "idle" => i2c.mutex # t

\* C30: between the operations of the driver the buffer holds fewer bytes
\* than its capacity, and the putchar that fills the buffer empties it also
\* when the write to the card fails.
C30_BufferBelowCapacity ==
    /\ [](Len(sd.buf) < BufCap)
    /\ [][(state = 4 /\ ready_to_send(sd) /\ sd'.mounted /\ ~ready_to_send(sd'))
          => sd'.buf = <<>> /\ sd'.data = sd.data]_vars

\* C30 witness: a first full buffer was written to the data file, a second
\* one failed to be written, and the buffer is empty after it.
C30_Witness ==
    /\ state = 4
    /\ sd.mounted
    /\ sd.file = "data"
    /\ sd.dfr = FR_DISK_ERR
    /\ Len(sd.data) >= BufCap
    /\ sd.buf = <<>>

====
